---- MODULE Spec2Model ----
(***************************************************************************)
(* Tool-calling orchestration loop of the data analyst agent               *)
(* (src/main.py: run_agent_for_api, _chat, _parse_args, _call_tool and the *)
(* three tools).                                                           *)
(*                                                                         *)
(* Python values are tagged records: [t |-> "null"], [t |-> "bool", v],    *)
(* [t |-> "int", v], [t |-> "float", num, scale], [t |-> "str", v],        *)
(* [t |-> "list", v], [t |-> "dict", v].  A str is a Text: a sequence of   *)
(* symbols, where a symbol is one structural character, one digit, one     *)
(* whitespace character, one JSON literal word, or a run of ordinary       *)
(* characters.  A dict is the sequence of its <<key, value>> pairs in      *)
(* insertion order.                                                        *)
(***************************************************************************)
EXTENDS Integers, Sequences, FiniteSets, TLC

(***************************************************************************)
(* Python values                                                           *)
(***************************************************************************)
PyNone == [t |-> "null"]

PyBool(b) == [t |-> "bool", v |-> b]

PyInt(n) == [t |-> "int", v |-> n]

PyFloat(n, k) == [t |-> "float", num |-> n, scale |-> k]

PyStr(s) == [t |-> "str", v |-> s]

PyList(xs) == [t |-> "list", v |-> xs]

PyDict(kvs) == [t |-> "dict", v |-> kvs]

\* isinstance(x, list) / isinstance(x, dict) / isinstance(x, str)
IsList(x) == x.t = "list"

IsDict(x) == x.t = "dict"

IsStr(x) == x.t = "str"

\* Python truthiness of a value (`x or default`, `if x:`, `not x`)
Truthy(x) ==
    CASE x.t = "null" -> FALSE
      [] x.t = "bool" -> x.v
      [] x.t = "int" -> x.v # 0
      [] x.t = "float" -> x.num # 0
      [] OTHER -> x.v # <<>>

\* d[key] = value on an insertion-ordered dict
RECURSIVE DictSet(_, _, _)
DictSet(kvs, k, val) ==
    IF kvs = <<>> THEN <<<<k, val>>>>
    ELSE IF Head(kvs)[1] = k THEN <<<<k, val>>>> \o Tail(kvs)
    ELSE <<Head(kvs)>> \o DictSet(Tail(kvs), k, val)

DictKeys(kvs) == {kvs[i][1] : i \in 1..Len(kvs)}

\* d[key] for a key that is present
DictGet(kvs, k) == kvs[CHOOSE i \in 1..Len(kvs) : kvs[i][1] = k][2]

(***************************************************************************)
(* Text: str.strip, json.loads, json.dumps                                 *)
(***************************************************************************)
Whitespace == {" ", "\n", "\t", "\r"}

Digits == <<"0", "1", "2", "3", "4", "5", "6", "7", "8", "9">>

IsDigit(ch) == \E d \in 1..10 : Digits[d] = ch

DigitVal(ch) == (CHOOSE d \in 1..10 : Digits[d] = ch) - 1

\* str.strip(): drop leading and trailing whitespace
RECURSIVE LStrip(_)
LStrip(s) ==
    IF s # <<>> /\ Head(s) \in Whitespace THEN LStrip(Tail(s)) ELSE s

RECURSIVE RStrip(_)
RStrip(s) ==
    IF s # <<>> /\ s[Len(s)] \in Whitespace
    THEN RStrip(SubSeq(s, 1, Len(s) - 1)) ELSE s

Strip(s) == RStrip(LStrip(s))

\* json decoder: first index >= i that is not JSON whitespace
RECURSIVE SkipWs(_, _)
SkipWs(s, i) ==
    IF i <= Len(s) /\ s[i] \in Whitespace THEN SkipWs(s, i + 1) ELSE i

ParseFail == [ok |-> FALSE]

ParseOk(val, pos) == [ok |-> TRUE, val |-> val, pos |-> pos]

\* first index >= i holding a digit run's end (index after the last digit)
RECURSIVE DigitsEnd(_, _)
DigitsEnd(s, i) ==
    IF i <= Len(s) /\ IsDigit(s[i]) THEN DigitsEnd(s, i + 1) ELSE i

\* value of the digit run s[i..j-1]
RECURSIVE DigitsVal(_, _, _, _)
DigitsVal(s, i, j, acc) ==
    IF i >= j THEN acc ELSE DigitsVal(s, i + 1, j, acc * 10 + DigitVal(s[i]))

\* number of trailing "0" digits of the run s[i..j-1]
RECURSIVE TrailingZeros(_, _, _)
TrailingZeros(s, i, j) ==
    IF j > i /\ s[j - 1] = "0" THEN 1 + TrailingZeros(s, i, j - 1) ELSE 0

\* JSON number: -? (0 | [1-9][0-9]*) (. [0-9]+)?
ParseNumber(s, i) ==
    LET neg == s[i] = "-"
        a == IF neg THEN i + 1 ELSE i
        b == DigitsEnd(s, a)
        sign == IF neg THEN -1 ELSE 1
    IN  IF b = a THEN ParseFail
        ELSE LET ie == IF s[a] = "0" THEN a + 1 ELSE b
                 hasFrac == ie <= Len(s) /\ s[ie] = "."
                               /\ DigitsEnd(s, ie + 1) > ie + 1
             IN  IF ~hasFrac
                 THEN ParseOk(PyInt(sign * DigitsVal(s, a, ie, 0)), ie)
                 ELSE LET fe == DigitsEnd(s, ie + 1)
                          z  == TrailingZeros(s, ie + 1, fe)
                          k  == (fe - (ie + 1)) - z
                      IN  ParseOk(PyFloat(sign * DigitsVal(s, ie + 1, fe - z,
                                              DigitsVal(s, a, ie, 0)), k), fe)

\* index of the closing quote at or after i, 0 when there is none
\* the character a backslash escape stands for; "" for an invalid escape
\* (\b, \f and \uXXXX are not sampled)
Unescape(e) ==
    CASE e = "\"" -> "\""
      [] e = "\\" -> "\\"
      [] e = "/" -> "/"
      [] e = "n" -> "\n"
      [] e = "t" -> "\t"
      [] e = "r" -> "\r"
      [] OTHER -> ""

\* the rest of a JSON string from position i, acc being its value so far:
\* ends at the closing quote, decodes escapes, rejects raw control characters
RECURSIVE ScanString(_, _, _)
ScanString(s, i, acc) ==
    IF i > Len(s) THEN ParseFail
    ELSE IF s[i] = "\"" THEN ParseOk(PyStr(acc), i + 1)
    ELSE IF s[i] = "\\"
    THEN IF i + 1 > Len(s) \/ Unescape(s[i + 1]) = "" THEN ParseFail
         ELSE ScanString(s, i + 2, Append(acc, Unescape(s[i + 1])))
    ELSE IF s[i] \in {"\n", "\t", "\r"} THEN ParseFail
    ELSE ScanString(s, i + 1, Append(acc, s[i]))

\* JSON string whose opening quote is at i - 1
ParseString(s, i) == ScanString(s, i, <<>>)

RECURSIVE ParseValue(_, _)
RECURSIVE ParseArrayItems(_, _, _)
RECURSIVE ParseObjectItems(_, _, _)

\* items of an array; i is the index of the next value
ParseArrayItems(s, i, acc) ==
    LET r == ParseValue(s, i)
    IN  IF ~r.ok THEN ParseFail
        ELSE LET j == SkipWs(s, r.pos)
                 items == Append(acc, r.val)
             IN  IF j > Len(s) THEN ParseFail
                 ELSE IF s[j] = "]" THEN ParseOk(PyList(items), j + 1)
                 ELSE IF s[j] = "," THEN ParseArrayItems(s, SkipWs(s, j + 1), items)
                 ELSE ParseFail

\* members of an object; i is the index of the next key's opening quote
ParseObjectItems(s, i, acc) ==
    IF i > Len(s) \/ s[i] # "\"" THEN ParseFail
    ELSE LET k == ParseString(s, i + 1)
         IN  IF ~k.ok THEN ParseFail
             ELSE LET c == SkipWs(s, k.pos)
                  IN  IF c > Len(s) \/ s[c] # ":" THEN ParseFail
                      ELSE LET r == ParseValue(s, SkipWs(s, c + 1))
                           IN  IF ~r.ok THEN ParseFail
                               ELSE LET j == SkipWs(s, r.pos)
                                        kvs == DictSet(acc, k.val.v, r.val)
                                    IN  IF j > Len(s) THEN ParseFail
                                        ELSE IF s[j] = "}" THEN ParseOk(PyDict(kvs), j + 1)
                                        ELSE IF s[j] = ","
                                        THEN ParseObjectItems(s, SkipWs(s, j + 1), kvs)
                                        ELSE ParseFail

\* one JSON value starting exactly at index i
ParseValue(s, i) ==
    IF i > Len(s) THEN ParseFail
    ELSE LET ch == s[i]
         IN  CASE ch = "\"" -> ParseString(s, i + 1)
               [] ch = "[" ->
                    LET j == SkipWs(s, i + 1)
                    IN  IF j <= Len(s) /\ s[j] = "]" THEN ParseOk(PyList(<<>>), j + 1)
                        ELSE ParseArrayItems(s, j, <<>>)
               [] ch = "{" ->
                    LET j == SkipWs(s, i + 1)
                    IN  IF j <= Len(s) /\ s[j] = "}" THEN ParseOk(PyDict(<<>>), j + 1)
                        ELSE ParseObjectItems(s, j, <<>>)
               [] ch = "null" -> ParseOk(PyNone, i + 1)
               [] ch = "true" -> ParseOk(PyBool(TRUE), i + 1)
               [] ch = "false" -> ParseOk(PyBool(FALSE), i + 1)
               [] ch = "-" \/ IsDigit(ch) -> ParseNumber(s, i)
               [] OTHER -> ParseFail

\* json.loads(s): [ok |-> TRUE, val |-> value] or, on JSONDecodeError,
\* [ok |-> FALSE]; text after the value is "Extra data"
Loads(s) ==
    LET r == ParseValue(s, SkipWs(s, 1))
    IN  IF ~r.ok THEN ParseFail
        ELSE IF SkipWs(s, r.pos) # Len(s) + 1 THEN ParseFail
        ELSE [ok |-> TRUE, val |-> r.val]

\* decimal digits of a natural number
RECURSIVE NatText(_)
NatText(n) ==
    IF n < 10 THEN <<Digits[n + 1]>>
    ELSE NatText(n \div 10) \o <<Digits[(n % 10) + 1]>>

RECURSIVE Dumps(_)
\* the text of a string between its quotes, as json.dumps escapes it
RECURSIVE Escape(_)
Escape(s) ==
    IF s = <<>> THEN <<>>
    ELSE LET c == Head(s)
         IN  (CASE c = "\"" -> <<"\\", "\"">>
                [] c = "\\" -> <<"\\", "\\">>
                [] c = "\n" -> <<"\\", "n">>
                [] c = "\t" -> <<"\\", "t">>
                [] c = "\r" -> <<"\\", "r">>
                [] OTHER -> <<c>>) \o Escape(Tail(s))

RECURSIVE DumpsItems(_)
RECURSIVE DumpsMembers(_)

DumpsItems(xs) ==
    IF xs = <<>> THEN <<>>
    ELSE IF Len(xs) = 1 THEN Dumps(xs[1])
    ELSE Dumps(Head(xs)) \o <<",", " ">> \o DumpsItems(Tail(xs))

DumpsMembers(kvs) ==
    IF kvs = <<>> THEN <<>>
    ELSE LET m == <<"\"">> \o Escape(Head(kvs)[1]) \o <<"\"", ":", " ">>
                    \o Dumps(Head(kvs)[2])
         IN  IF Len(kvs) = 1 THEN m
             ELSE m \o <<",", " ">> \o DumpsMembers(Tail(kvs))

\* json.dumps(v) with the default separators
Dumps(x) ==
    CASE x.t = "null" -> <<"null">>
      [] x.t = "bool" -> IF x.v THEN <<"true">> ELSE <<"false">>
      [] x.t = "int" -> IF x.v < 0 THEN <<"-">> \o NatText(-x.v) ELSE NatText(x.v)
      [] x.t = "str" -> <<"\"">> \o Escape(x.v) \o <<"\"">>
      [] x.t = "list" -> <<"[">> \o DumpsItems(x.v) \o <<"]">>
      [] x.t = "dict" -> <<"{">> \o DumpsMembers(x.v) \o <<"}">>

(***************************************************************************)
(* Bounds and sampled inputs                                               *)
(***************************************************************************)
\* largest number of tool calls the sampled model asks for in one run, over
\* all its turns
MaxToolCalls == 2

\* seconds a chat request, a page fetch or a script run may take
Durations == {0, 55}

\* the safety budget of the tool loop, in seconds
LoopBudget == 110

\* Paths.  GPT_RESP_PATH, the debug dump of the raw response, is written
\* best-effort by _chat and read by nothing: it is not part of the state.
SCRAPED_HTML_DEFAULT == <<"outputs/scraped_content.html">>

TEMP_SCRIPT_PATH == <<"outputs/temp_script.py">>

Paths == {SCRAPED_HTML_DEFAULT, TEMP_SCRIPT_PATH}

Absent == [t |-> "absent"]

\* a rendered page: its elements in document order, one text node each
PageA ==
    << [tag |-> <<"h1">>, text |-> <<"Films">>],
       [tag |-> <<"td">>, text |-> <<" ", "Titanic", "\n">>],
       [tag |-> <<"td">>, text |-> <<" ">>] >>

PageB ==
    << [tag |-> <<"h1">>, text |-> <<"Books">>],
       [tag |-> <<"li">>, text |-> <<"Dune">>],
       [tag |-> <<"li">>, text |-> <<"Emma", " ">>] >>

SampleUrl == <<"http://a">>

SampleUrlB == <<"http://b">>

\* what the browser renders for a url
Web(url) ==
    [t |-> "html",
     v |-> IF url = SampleUrl THEN PageA ELSE IF url = SampleUrlB THEN PageB ELSE <<>>]

\* selectors the CSS parser accepts; anything else is a syntax error
ValidSelectors == {<<"td">>, <<"h1">>, <<"table">>, <<"li">>}

\* selectors the CSS parser rejects
InvalidSelectors == {<<"td[">>, <<"!!">>}

\* (returncode, stdout, stderr) a script run can end with
RunOutcomes ==
    { [returncode |-> 0, stdout |-> <<"[", "1", "]", "\n">>, stderr |-> <<>>],
      [returncode |-> 1, stdout |-> <<>>, stderr |-> <<"Traceback">>],
      [returncode |-> 1, stdout |-> <<" ", "\n">>, stderr |-> <<"Traceback">>],
      [returncode |-> 1, stdout |-> <<"partial">>, stderr |-> <<"Traceback">>] }

\* the function part of the tool calls a model reply is built from; the
\* arguments value is a JSON text, a mapping, another value, or absent
ToolCallSamples ==
    << [name |-> <<"scrape_website">>,
        arguments |-> PyStr(Dumps(PyDict(<< <<<<"url">>, PyStr(SampleUrl)>>,
                          <<<<"output_file">>, PyStr(SCRAPED_HTML_DEFAULT)>> >>)))],
       [name |-> <<"get_relevant_data">>,
        arguments |-> PyDict(<< <<<<"file_name">>, PyStr(SCRAPED_HTML_DEFAULT)>>,
                                <<<<"js_selector">>, PyStr(<<"td">>)>> >>)],
       [name |-> <<"answer_questions">>,
        arguments |-> PyStr(<<"{", "\"", "code", "\"", ":", " ", "\"", "print(1)", "\"", "}">>)],
       [name |-> <<"bogus_tool">>],
       [name |-> <<"scrape_website">>, arguments |-> PyStr(<<"not json">>)],
       [name |-> <<"get_relevant_data">>, arguments |-> PyStr(<<"[", "1", "]">>)],
       [name |-> <<"bogus_tool">>, arguments |-> PyStr(<<"[", "1", "]">>)],
       [name |-> <<"answer_questions">>, arguments |-> PyInt(7)] >>

\* content of a reply that carries no tool calls
FinalContents ==
    { PyStr(<<"[", "1", ",", " ", "\"", "Titanic", "\"", ",", " ", "0", ".", "4", "8", "]">>),
      PyStr(<<" ", "[", "]", "\n">>),
      PyStr(<<"{", "\"", "a", "\"", ":", " ", "1", "}">>),
      PyStr(<<"1">>),
      PyStr(<<"null">>),
      PyStr(<<"Done.">>),
      PyStr(<<"[", "1", ",">>),
      PyStr(<<"[", "1", "]", " ", "Done.">>),
      PyStr(<<>>),
      PyNone }

Tasks == {<<"How many films?">>}

Plans == {<<"1. scrape">>}

(***************************************************************************)
(* State                                                                   *)
(***************************************************************************)
VARIABLES
    pc,          \* AWAITING_MODEL, DISPATCHING_TOOLS, TERMINATED_SUCCESS, TERMINATED_FAILURE
    messages,    \* the conversation of the run
    msg,         \* the assistant message the last chat request returned
    tool_calls,  \* the tool calls of the current turn
    tc_i,        \* position of the for loop in tool_calls
    now,         \* time.time() - start, in seconds
    result,      \* the returned list, NoValue until the run returns
    error,       \* the exception the run raised, NoError until it fails
    token,       \* whether AIPIPE_TOKEN is set
    files,       \* the file system: content of each path, or Absent
    browsers,    \* browsers launched and not yet closed
    chat_calls,  \* calls of _chat so far
    posts,       \* HTTP POSTs to the chat endpoint so far
    invoked,     \* tools invoked so far, oldest first
    turns,       \* tool-call turns so far
    tools,       \* the module-level tool registry
    request,     \* the JSON body of the last POST to the chat endpoint
    runs,        \* overlapping runs on one event loop: each run's position
    applied      \* a function applied on its own: its name, input and output

vars == <<pc, messages, msg, tool_calls, tc_i, now, result, error, token,
          files, browsers, chat_calls, posts, invoked, turns, tools, request,
          runs, applied>>

NoValue == [t |-> "novalue"]

NoError == [cls |-> "none", origin |-> "none"]

NoMsg == [role |-> "none"]

NoRequest == [model |-> "none"]

\* no run is overlapping another
NoRuns == <<>>

\* no function is applied on its own
NotApplied == [fn |-> "none"]

\* exception classes and their base classes (every class is an Exception)
Bases(cls) ==
    CASE cls = "JSONDecodeError" -> {"JSONDecodeError", "ValueError"}
      [] cls = "TimeoutError" -> {"TimeoutError", "OSError"}
      [] cls = "FileNotFoundError" -> {"FileNotFoundError", "OSError"}
      [] cls = "HTTPStatusError" -> {"HTTPStatusError", "HTTPError"}
      [] cls = "TransportError" -> {"TransportError", "HTTPError"}
      [] cls = "PlaywrightTimeoutError" -> {"PlaywrightTimeoutError", "PlaywrightError"}
      [] cls = "KeyError" -> {"KeyError", "LookupError"}
      [] cls = "IndexError" -> {"IndexError", "LookupError"}
      [] OTHER -> {cls}

\* isinstance(e, base): what an `except base` clause catches
IsInstance(e, base) == base \in Bases(e.cls)

_system_prompt == <<"You are an execution agent. ...">>

\* mapping.get(key): the field's value, None when the key is absent
Get(rec, key) == IF key \in DOMAIN rec THEN rec[key] ELSE PyNone

\* one entry of the registry: a strict function schema whose parameters are
\* all required and closed to additional properties
ToolEntry(name, params) ==
    [type |-> "function",
     function |-> [name |-> name,
                   parameters |-> [type |-> "object",
                                   properties |-> params,
                                   required |-> params,
                                   additionalProperties |-> FALSE],
                   strict |-> TRUE]]

\* the `tools` list as the module defines it
ToolRegistry ==
    << ToolEntry(<<"scrape_website">>, << <<"url">>, <<"output_file">> >>),
       ToolEntry(<<"get_relevant_data">>, << <<"file_name">>, <<"js_selector">> >>),
       ToolEntry(<<"answer_questions">>, << <<"code">> >>) >>

\* a request that leaves the last tool out
ChatRequest_trimmed(ms) ==
    [model |-> "gpt-4o-mini", messages |-> ms,
     tools |-> SubSeq(tools, 1, Len(tools) - 1), tool_choice |-> "auto"]

\* the JSON body _chat posts
ChatRequest(ms) ==
    [model |-> "gpt-4o-mini", messages |-> ms, tools |-> tools,
     tool_choice |-> "auto"]

Init ==
    /\ pc = "AWAITING_MODEL"
    /\ \E task \in Tasks, plan \in Plans :
         messages =
           << [role |-> "system", content |-> PyStr(_system_prompt)],
              [role |-> "user",
               content |-> PyStr(task \o <<"\n", "\n", "Plan:", "\n">> \o plan
                   \o <<"\n", "\n",
                        "Use the tools. When done, return ONLY the final JSON array.">>)] >>
    /\ msg = NoMsg
    /\ tool_calls = <<>>
    /\ tc_i = 1
    /\ now = 0
    /\ result = NoValue
    /\ error = NoError
    /\ token \in BOOLEAN
    /\ \E old \in {Absent, Web(SampleUrl)} :
         files = [p \in Paths |-> IF p = SCRAPED_HTML_DEFAULT THEN old ELSE Absent]
    /\ browsers = 0
    /\ chat_calls = 0
    /\ posts = 0
    /\ invoked = <<>>
    /\ turns = 0
    /\ tools = ToolRegistry
    /\ request = NoRequest
    /\ runs = NoRuns
    /\ applied = NotApplied

\* a loop that records the exception and tries the turn again
Raise_retry(cls, origin) ==
    /\ pc' = "AWAITING_MODEL"
    /\ error' = [cls |-> cls, origin |-> origin]
    /\ UNCHANGED result

\* the run ends by raising cls
Raise(cls, origin) ==
    /\ pc' = "TERMINATED_FAILURE"
    /\ error' = [cls |-> cls, origin |-> origin]
    /\ UNCHANGED result

(***************************************************************************)
(* run_agent_for_api: top of the loop and the chat turn                    *)
(***************************************************************************)
\* a loop that never looks at the clock
BudgetExceeded_never(t) == FALSE

\* a budget check that allows a minute more
BudgetExceeded_late(t) == t > LoopBudget + 60

\* the budget check at the top of an iteration
BudgetExceeded(t) == t > LoopBudget

LoopTimeout ==
    /\ pc = "AWAITING_MODEL"
    /\ BudgetExceeded(now)
    /\ Raise("TimeoutError", "budget")
    /\ UNCHANGED <<messages, msg, tool_calls, tc_i, now, token, files, browsers,
                   chat_calls, posts, invoked, turns, tools, request, runs,
                   applied>>

\* a loop that stops asking the model after two tool-call turns
ChatEnabled_capped == pc = "AWAITING_MODEL" /\ ~(now > LoopBudget) /\ turns < 2

\* the loop is about to call _chat
ChatEnabled == pc = "AWAITING_MODEL" /\ ~BudgetExceeded(now)

\* _chat: AIPIPE_TOKEN is not set
ChatMissingToken ==
    /\ ChatEnabled
    /\ ~token
    /\ chat_calls' = chat_calls + 1
    /\ Raise("RuntimeError", "upstream")
    /\ UNCHANGED <<messages, msg, tool_calls, tc_i, now, token, files, browsers,
                   posts, invoked, turns, tools, request, runs, applied>>

\* _chat: the POST fails in transport (timeout, connection), the status is
\* not 2xx, or the body is not JSON
ChatRequestFails ==
    /\ ChatEnabled
    /\ token
    /\ \E d \in Durations,
          cls \in {"TransportError", "HTTPStatusError", "JSONDecodeError"} :
         /\ now' = now + d
         /\ Raise(cls, "upstream")
    /\ chat_calls' = chat_calls + 1
    /\ posts' = posts + 1
    /\ request' = ChatRequest(messages)
    /\ UNCHANGED <<messages, msg, tool_calls, tc_i, token, files, browsers,
                   invoked, turns, tools, runs, applied>>

\* _chat: the body is JSON without choices[0].message
ChatShapeless ==
    /\ ChatEnabled
    /\ token
    /\ \E d \in Durations, cls \in {"KeyError", "IndexError", "TypeError"} :
         /\ now' = now + d
         /\ Raise(cls, "upstream")
    /\ chat_calls' = chat_calls + 1
    /\ posts' = posts + 1
    /\ request' = ChatRequest(messages)
    /\ UNCHANGED <<messages, msg, tool_calls, tc_i, token, files, browsers,
                   invoked, turns, tools, runs, applied>>

\* the final text of a reply without tool calls
FinalText(m) ==
    LET content == Get(m, "content")
    IN  Strip(IF Truthy(content) THEN content.v ELSE <<>>)

\* a loop that takes an empty list for a missing answer
FinalOutcome_nonempty(text) ==
    LET parsed == Loads(text)
    IN  IF ~parsed.ok THEN [returns |-> FALSE, cls |-> "ValueError"]
        ELSE IF ~IsList(parsed.val) \/ parsed.val.v = <<>>
        THEN [returns |-> FALSE, cls |-> "ValueError"]
        ELSE [returns |-> TRUE, value |-> parsed.val]

\* a loop without the isinstance check
FinalOutcome_anyjson(text) ==
    LET parsed == Loads(text)
    IN  IF ~parsed.ok THEN [returns |-> FALSE, cls |-> "ValueError"]
        ELSE [returns |-> TRUE, value |-> parsed.val]

\* how parsing the final text ends: return the list or raise ValueError
FinalOutcome(text) ==
    LET parsed == Loads(text)
    IN  IF ~parsed.ok THEN [returns |-> FALSE, cls |-> "ValueError"]
        ELSE IF ~IsList(parsed.val) THEN [returns |-> FALSE, cls |-> "ValueError"]
        ELSE [returns |-> TRUE, value |-> parsed.val]

\* msg.get("tool_calls") or []
ToolCallsOf(m) == IF "tool_calls" \in DOMAIN m THEN m.tool_calls ELSE <<>>

\* replies without tool calls the sampled model can give
FinalReplies ==
    { [role |-> "assistant", content |-> c] : c \in FinalContents }
      \cup { [role |-> "assistant", content |-> PyStr(<<"[", "]">>), tool_calls |-> <<>>] }

\* the chat request returns a reply without tool calls
ChatFinal ==
    /\ ChatEnabled
    /\ token
    /\ \E d \in Durations, reply \in FinalReplies :
         LET o == FinalOutcome(FinalText(reply))
         IN  /\ ToolCallsOf(reply) = <<>>
             /\ now' = now + d
             /\ msg' = reply
             /\ IF o.returns
                THEN /\ pc' = "TERMINATED_SUCCESS"
                     /\ result' = o.value
                     /\ UNCHANGED error
                ELSE Raise(o.cls, "final")
    /\ chat_calls' = chat_calls + 1
    /\ posts' = posts + 1
    /\ request' = ChatRequest(messages)
    /\ UNCHANGED <<messages, tool_calls, tc_i, token, files, browsers, invoked,
                   turns, tools, runs, applied>>

\* number of tool-result messages in a conversation
RECURSIVE NumToolResults(_)
NumToolResults(ms) ==
    IF ms = <<>> THEN 0
    ELSE (IF Head(ms).role = "tool" THEN 1 ELSE 0) + NumToolResults(Tail(ms))

\* replies with tool calls the sampled model can give, at most room calls
\* each; the upstream API numbers the calls of a conversation, base being
\* the calls made so far; a reply of several calls also carries text
ToolCallReplies(base, room) ==
    { [role |-> "assistant",
       content |-> IF Len(pick) = 1 THEN PyNone ELSE PyStr(<<"Let me look.">>),
       tool_calls |-> [i \in DOMAIN pick |->
                         [id |-> <<"call_">> \o NatText(base + i),
                          type |-> "function",
                          function |-> ToolCallSamples[pick[i]]]]] :
        pick \in UNION {[1..n -> DOMAIN ToolCallSamples] : n \in 1..room} }

\* an append that overwrites the last message
ListAppend_overwrite(ms, m) == [ms EXCEPT ![Len(ms)] = m]

\* messages.append(m)
ListAppend(ms, m) == Append(ms, m)

\* an assistant message that keeps only the first call
AssistantMessage_first(tcs) ==
    [role |-> "assistant", content |-> PyNone, tool_calls |-> SubSeq(tcs, 1, 1)]

\* the assistant message the loop appends for a turn with tool calls
AssistantMessage(tcs) == [role |-> "assistant", content |-> PyNone, tool_calls |-> tcs]

\* the chat request takes one of durations and returns a reply with at most
\* room tool calls
ChatReplyWithCalls(durations, room) ==
    /\ ChatEnabled
    /\ token
    /\ \E d \in durations, reply \in ToolCallReplies(NumToolResults(messages), room) :
         /\ ToolCallsOf(reply) # <<>>
         /\ now' = now + d
         /\ msg' = reply
         /\ tool_calls' = ToolCallsOf(reply)
         /\ messages' = ListAppend(messages, AssistantMessage(ToolCallsOf(reply)))
    /\ tc_i' = 1
    /\ pc' = "DISPATCHING_TOOLS"
    /\ chat_calls' = chat_calls + 1
    /\ posts' = posts + 1
    /\ turns' = turns + 1
    /\ request' = ChatRequest(messages)
    /\ UNCHANGED <<result, error, token, files, browsers, invoked, tools, runs,
                   applied>>

\* the chat request returns a reply with tool calls
ChatToolCalls ==
    /\ NumToolResults(messages) < MaxToolCalls
    /\ ChatReplyWithCalls(Durations, MaxToolCalls - NumToolResults(messages))

(***************************************************************************)
(* Tools                                                                   *)
(***************************************************************************)
\* a tool call ends by returning text or by raising
Returns(out, fs, d) ==
    [raised |-> FALSE, cls |-> "none", out |-> out, files |-> fs, leaked |-> 0,
     d |-> d, ran |-> TRUE]

Raises(cls, fs, leaked, d, ran) ==
    [raised |-> TRUE, cls |-> cls, out |-> <<>>, files |-> fs, leaked |-> leaked,
     d |-> d, ran |-> ran]

\* f(**args) cannot bind: args is no mapping, a required parameter is
\* missing, or a keyword is unexpected
BindFails(args, required, optional) ==
    \/ ~IsDict(args)
    \/ ~(required \subseteq DictKeys(args.v))
    \/ ~(DictKeys(args.v) \subseteq (required \cup optional))

\* path.write_text(content)
WriteText(fs, path, content) ==
    [p \in DOMAIN fs \cup {path} |-> IF p = path THEN content ELSE fs[p]]

\* path.read_text() succeeds
Exists(fs, path) == path \in DOMAIN fs /\ fs[path] # Absent

scrape_website(args, fs) ==
    LET url == DictGet(args.v, <<"url">>)
        output_file == IF <<"output_file">> \in DictKeys(args.v)
                       THEN DictGet(args.v, <<"output_file">>)
                       ELSE PyStr(SCRAPED_HTML_DEFAULT)
        res == PyDict(<< <<<<"ok">>, PyBool(TRUE)>>,
                         <<<<"file">>, output_file>>,
                         <<<<"url">>, url>> >>)
    IN  \* chromium.launch fails: no browser
        { Raises("PlaywrightError", fs, 0, 0, TRUE) }
        \* new_page fails, outside the try: leaving `async with` stops the
        \* driver and with it the browser
        \cup { Raises("PlaywrightError", fs, 0, 0, TRUE) }
        \* goto times out or content() fails: the browser is closed
        \cup { Raises("PlaywrightTimeoutError", fs, 0, d, TRUE) : d \in Durations }
        \* mkdir or write_text fails: the browser is closed
        \cup { Raises("OSError", fs, 0, 0, TRUE) }
        \cup { Returns(Dumps(res), WriteText(fs, output_file.v, Web(url.v)), d) :
                 d \in Durations }

\* BeautifulSoup(html, "html.parser"): the elements of a document
Soup(content) ==
    IF content.t = "html" THEN content.v
    ELSE <<[tag |-> <<"#text">>, text |-> content.v]>>

\* a select that matches every element
Select_all(doc, selector) == doc

\* soup.select(selector): the elements the selector matches
Select(doc, selector) ==
    LET Matches(el) == el.tag = selector IN SelectSeq(doc, Matches)

\* " ".join of the stripped, non-empty text nodes
RECURSIVE JoinText(_)
JoinText(doc) ==
    IF doc = <<>> THEN <<>>
    ELSE LET head == Strip(Head(doc).text)
             rest == JoinText(Tail(doc))
         IN  IF head = <<>> THEN rest
             ELSE IF rest = <<>> THEN head
             ELSE head \o <<" ">> \o rest

get_relevant_data(args, fs) ==
    LET file_name == DictGet(args.v, <<"file_name">>)
        js_selector == IF <<"js_selector">> \in DictKeys(args.v)
                       THEN DictGet(args.v, <<"js_selector">>) ELSE PyNone
    IN  IF ~Exists(fs, file_name.v)
        THEN { Raises("FileNotFoundError", fs, 0, 0, TRUE) }
        ELSE LET soup == Soup(fs[file_name.v])
             IN  IF Truthy(js_selector)
                 THEN IF js_selector.v \notin ValidSelectors
                      THEN { Raises("SelectorSyntaxError", fs, 0, 0, TRUE) }
                      ELSE LET elements == Select(soup, js_selector.v)
                               res == PyDict(<<
                                 <<<<"data">>, PyList([i \in DOMAIN elements |->
                                                  PyStr(Strip(elements[i].text))])>>,
                                 <<<<"count">>, PyInt(Len(elements))>>,
                                 <<<<"selector">>, js_selector>> >>)
                           IN  { Returns(Dumps(res), fs, 0) }
                 ELSE { Returns(Dumps(PyDict(<< <<<<"data">>, PyStr(JoinText(soup))>> >>)),
                                fs, 0) }

\* an executor that hands back standard output whatever happened
ExecutionOutcome_stdout(proc) == proc.stdout

\* an executor that reports every nonzero exit as an error
ExecutionOutcome_nonzero(proc) ==
    IF proc.returncode # 0
    THEN Dumps(PyDict(<< <<<<"error">>, PyStr(<<"code_failed">>)>>,
                         <<<<"stderr">>, PyStr(proc.stderr)>> >>))
    ELSE proc.stdout

\* what answer_questions returns for a finished subprocess
ExecutionOutcome(proc) ==
    IF proc.returncode # 0 /\ Strip(proc.stdout) = <<>>
    THEN Dumps(PyDict(<< <<<<"error">>, PyStr(<<"code_failed">>)>>,
                         <<<<"stderr">>, PyStr(proc.stderr)>> >>))
    ELSE proc.stdout

answer_questions(args, fs) ==
    LET code == DictGet(args.v, <<"code">>)
        written == WriteText(fs, TEMP_SCRIPT_PATH, [t |-> "py", v |-> code.v])
    IN  { Returns(ExecutionOutcome(proc), written, d) :
            proc \in RunOutcomes, d \in Durations }

_parse_args(raw) ==
    IF raw.t = "null" THEN PyDict(<<>>)
    ELSE IF IsDict(raw) THEN raw
    ELSE IF IsStr(raw)
    THEN LET parsed == Loads(raw.v)
         IN  IF parsed.ok THEN parsed.val ELSE PyDict(<<>>)
    ELSE PyDict(<<>>)

\* the arguments values of the sampled calls, each parsed once
SampledArguments ==
    {Get(ToolCallSamples[i], "arguments") : i \in DOMAIN ToolCallSamples}

ParsedArguments == [raw \in SampledArguments |-> _parse_args(raw)]

ToolNames == {<<"scrape_website">>, <<"get_relevant_data">>, <<"answer_questions">>}

\* a dispatcher that raises for a name it does not know
UnknownTool_raises(name, fs) == { Raises("ValueError", fs, 0, 0, FALSE) }

\* the fall-through of _call_tool: the "Unknown tool" result
UnknownTool(name, fs) ==
    { [raised |-> FALSE, cls |-> "none",
       out |-> Dumps(PyDict(<< <<<<"ok">>, PyBool(FALSE)>>,
                 <<<<"error">>, PyStr(<<"Unknown tool '">> \o name \o <<"'">>)>> >>)),
       files |-> fs, leaked |-> 0, d |-> 0, ran |-> FALSE] }

\* the outcomes of _call_tool(name, args) on file system fs
_call_tool(name, args, fs) ==
    IF name = <<"scrape_website">>
    THEN IF BindFails(args, {<<"url">>}, {<<"output_file">>})
         THEN { Raises("TypeError", fs, 0, 0, FALSE) }
         ELSE scrape_website(args, fs)
    ELSE IF name = <<"get_relevant_data">>
    THEN IF BindFails(args, {<<"file_name">>}, {<<"js_selector">>})
         THEN { Raises("TypeError", fs, 0, 0, FALSE) }
         ELSE get_relevant_data(args, fs)
    ELSE IF name = <<"answer_questions">>
    THEN IF BindFails(args, {<<"code">>}, {})
         THEN { Raises("TypeError", fs, 0, 0, FALSE) }
         ELSE answer_questions(args, fs)
    ELSE UnknownTool(name, fs)

(***************************************************************************)
(* run_agent_for_api: dispatch of the turn's tool calls                    *)
(***************************************************************************)
\* a result message tagged with the turn's first call
ToolMessage_firstid(tc, out) ==
    [role |-> "tool", tool_call_id |-> tool_calls[1].id, name |-> tc.function.name,
     content |-> PyStr(out)]

\* the tool-result message the loop appends for call tc
ToolMessage(tc, out) ==
    [role |-> "tool", tool_call_id |-> tc.id, name |-> tc.function.name,
     content |-> PyStr(out)]

\* the call the for loop is at
CurrentCall == tool_calls[tc_i]

\* one iteration of `for tc in tool_calls`
DispatchCurrent ==
    LET tc == CurrentCall
        fn_name == tc.function.name
        args == ParsedArguments[Get(tc.function, "arguments")]
    IN  /\ \E o \in _call_tool(fn_name, args, files) :
             /\ now' = now + o.d
             /\ files' = o.files
             /\ browsers' = browsers + o.leaked
             /\ invoked' = IF o.ran THEN Append(invoked, fn_name) ELSE invoked
             /\ IF o.raised
                THEN /\ Raise(o.cls, "tool")
                     /\ UNCHANGED <<messages, tc_i>>
                ELSE /\ messages' = ListAppend(messages, ToolMessage(tc, o.out))
                     /\ tc_i' = IF tc_i = Len(tool_calls) THEN 1 ELSE tc_i + 1
                     /\ pc' = IF tc_i = Len(tool_calls)
                              THEN "AWAITING_MODEL" ELSE "DISPATCHING_TOOLS"
                     /\ UNCHANGED <<result, error>>
        /\ UNCHANGED <<msg, tool_calls, token, chat_calls, posts, turns, tools,
                       request, runs, applied>>

DispatchScrape ==
    /\ pc = "DISPATCHING_TOOLS"
    /\ CurrentCall.function.name = <<"scrape_website">>
    /\ DispatchCurrent

DispatchGetRelevantData ==
    /\ pc = "DISPATCHING_TOOLS"
    /\ CurrentCall.function.name = <<"get_relevant_data">>
    /\ DispatchCurrent

DispatchAnswerQuestions ==
    /\ pc = "DISPATCHING_TOOLS"
    /\ CurrentCall.function.name = <<"answer_questions">>
    /\ DispatchCurrent

\* answer_questions on a script that never exits: subprocess.run is given
\* no timeout, so the call never returns and the loop stays inside it
DispatchAnswerQuestionsHangs ==
    /\ pc = "DISPATCHING_TOOLS"
    /\ CurrentCall.function.name = <<"answer_questions">>
    /\ LET args == ParsedArguments[Get(CurrentCall.function, "arguments")]
       IN  /\ ~BindFails(args, {<<"code">>}, {})
           /\ files' = WriteText(files, TEMP_SCRIPT_PATH,
                                 [t |-> "py", v |-> DictGet(args.v, <<"code">>).v])
    /\ invoked' = Append(invoked, CurrentCall.function.name)
    /\ pc' = "IN_SUBPROCESS"
    /\ UNCHANGED <<messages, msg, tool_calls, tc_i, now, result, error, token,
                   browsers, chat_calls, posts, turns, tools, request, runs,
                   applied>>

DispatchUnknown ==
    /\ pc = "DISPATCHING_TOOLS"
    /\ CurrentCall.function.name \notin ToolNames
    /\ DispatchCurrent

Next ==
    \/ LoopTimeout
    \/ ChatMissingToken
    \/ ChatRequestFails
    \/ ChatShapeless
    \/ ChatFinal
    \/ ChatToolCalls
    \/ DispatchScrape
    \/ DispatchGetRelevantData
    \/ DispatchAnswerQuestions
    \/ DispatchAnswerQuestionsHangs
    \/ DispatchUnknown

Spec == Init /\ [][Next]_vars

(***************************************************************************)
(* Properties                                                              *)
(***************************************************************************)
Terminated == pc \in {"TERMINATED_SUCCESS", "TERMINATED_FAILURE"}

IsPrefix(a, b) == Len(a) <= Len(b) /\ SubSeq(b, 1, Len(a)) = a

IsToolCallMessage(m) == m.role = "assistant" /\ "tool_calls" \in DOMAIN m

\* every assistant tool-call message is followed by the results of exactly
\* its calls, in call order, each carrying its call's identifier
WellPaired(ms) ==
    \A i \in 1..Len(ms) :
        IsToolCallMessage(ms[i]) =>
            LET tcs == ms[i].tool_calls
                n == Len(tcs)
            IN  /\ i + n <= Len(ms)
                /\ \A k \in 1..n :
                     /\ ms[i + k].role = "tool"
                     /\ ms[i + k].tool_call_id = tcs[k].id
                     /\ ms[i + k].name = tcs[k].function.name
                /\ (i + n + 1 <= Len(ms) => ms[i + n + 1].role # "tool")

\* C1: whenever _chat is called, every assistant tool-call message of the
\* conversation is immediately followed by one tool-result message per
\* requested call, with that call's identifier, in call order; so no chat
\* request is issued while results of the current turn are missing.
C1_ChatSeesPairedResults == [][chat_calls' # chat_calls => WellPaired(messages)]_vars

\* a second chat request was issued after a turn of two calls was answered
C1_Witness ==
    /\ chat_calls >= 2
    /\ \E i \in 1..Len(messages) :
         /\ IsToolCallMessage(messages[i])
         /\ Len(messages[i].tool_calls) = 2
         /\ Len(messages) = i + 2
         /\ messages[i + 2].role = "tool"
         /\ messages[i + 2].tool_call_id = <<"call_", "2">>

\* C2: the conversation is append-only: every step leaves the messages
\* appended so far unchanged and in place.
C2_AppendOnly == [][IsPrefix(messages, messages')]_vars

\* a run that ended after a chat turn and its dispatch grew the conversation
C2_Witness == Terminated /\ Len(messages) >= 5

\* C3 as claimed: a run never returns a final array once the elapsed time
\* has exceeded the budget.
C3_NoReturnAfterBudget == pc = "TERMINATED_SUCCESS" => now <= LoopBudget

\* C3 as amended: when the elapsed time exceeds the budget at the top of a
\* loop iteration, the run fails with TimeoutError whatever the conversation
\* holds, without another chat request and without touching the
\* conversation.
C3_TimeoutAtLoopTop ==
    [][(pc = "AWAITING_MODEL" /\ now > LoopBudget) =>
          /\ pc' = "TERMINATED_FAILURE"
          /\ error' = [cls |-> "TimeoutError", origin |-> "budget"]
          /\ result' = NoValue
          /\ UNCHANGED <<messages, chat_calls, posts, invoked>>]_vars

\* the loop timed out with tool results in the conversation
C3_Witness ==
    /\ pc = "TERMINATED_FAILURE"
    /\ error.cls = "TimeoutError"
    /\ now > LoopBudget
    /\ Len(messages) >= 4

\* C4 as claimed: no error of a tool's execution (page fetch, extractor,
\* executor) ends the run as an exception.
C4_ToolErrorsNeverEscape ==
    ~(pc = "TERMINATED_FAILURE" /\ error.origin = "tool"
        /\ error.cls \in {"PlaywrightError", "PlaywrightTimeoutError",
                          "FileNotFoundError"})

\* the arguments value is absent, neither str nor mapping, not JSON, or JSON
\* that is no object
MalformedArguments(raw) ==
    \/ raw.t = "null"
    \/ ~(IsStr(raw) \/ IsDict(raw))
    \/ IsStr(raw) /\ ~Loads(raw.v).ok
    \/ IsStr(raw) /\ Loads(raw.v).ok /\ ~IsDict(Loads(raw.v).val)

\* C5 as claimed: a tool call with a malformed arguments value never fails
\* the turn.
C5_MalformedArgsNeverFail ==
    (pc = "TERMINATED_FAILURE" /\ error.origin = "tool") =>
        ~MalformedArguments(Get(CurrentCall.function, "arguments"))

\* the text is JSON for {"ok": false, "error": "Unknown tool '<name>'"}
IsUnknownToolError(text, name) ==
    LET parsed == Loads(text)
    IN  /\ parsed.ok
        /\ IsDict(parsed.val)
        /\ DictKeys(parsed.val.v) = {<<"ok">>, <<"error">>}
        /\ DictGet(parsed.val.v, <<"ok">>) = PyBool(FALSE)
        /\ DictGet(parsed.val.v, <<"error">>) = PyStr(<<"Unknown tool '">> \o name \o <<"'">>)

\* C6: dispatching a call that names no registered tool appends the JSON
\* "Unknown tool" error as that call's result, invokes no component, and
\* leaves the loop running: on to the turn's next call, or to the next model
\* turn after the last.
C6_UnknownToolContinues ==
    [][(pc = "DISPATCHING_TOOLS" /\ CurrentCall.function.name \notin ToolNames) =>
          /\ Len(messages') = Len(messages) + 1
          /\ IsPrefix(messages, messages')
          /\ LET m == messages'[Len(messages')]
             IN  /\ m.role = "tool"
                 /\ m.tool_call_id = CurrentCall.id
                 /\ IsStr(m.content)
                 /\ IsUnknownToolError(m.content.v, CurrentCall.function.name)
          /\ UNCHANGED <<invoked, files, browsers, error, result>>
          /\ pc' = IF tc_i = Len(tool_calls) THEN "AWAITING_MODEL"
                   ELSE "DISPATCHING_TOOLS"]_vars

\* the model was asked again after an unknown tool was answered
C6_Witness ==
    /\ chat_calls >= 2
    /\ invoked = <<>>
    /\ \E i \in 1..Len(messages) :
         /\ messages[i].role = "tool"
         /\ messages[i].name = <<"bogus_tool">>
         /\ IsUnknownToolError(messages[i].content.v, <<"bogus_tool">>)

\* the last reply carries no tool calls
IsFinalReply(m) == m.role = "assistant" /\ ToolCallsOf(m) = <<>>

\* final contents that are a JSON array, with the list each one denotes
ArrayContents ==
    { <<PyStr(<<"[", "1", ",", " ", "\"", "Titanic", "\"", ",", " ", "0", ".", "4", "8", "]">>),
        PyList(<<PyInt(1), PyStr(<<"Titanic">>), PyFloat(48, 2)>>)>>,
      <<PyStr(<<" ", "[", "]", "\n">>), PyList(<<>>)>>,
      <<PyStr(<<"[", "]">>), PyList(<<>>)>> }

\* C7: a reply without tool calls whose text is a JSON array ends the run
\* in success with exactly the parsed array, and nothing happens after:
\* no chat request, no tool invocation, no message.
C7_ArrayReturned ==
    /\ [](\A c \in ArrayContents :
            (IsFinalReply(msg) /\ msg.content = c[1]) =>
                (pc = "TERMINATED_SUCCESS" /\ result = c[2] /\ error = NoError))
    /\ [][pc = "TERMINATED_SUCCESS" =>
            UNCHANGED <<chat_calls, posts, invoked, messages, result>>]_vars

\* the run returned the three-element list of [1, "Titanic", 0.48]
C7_Witness ==
    /\ pc = "TERMINATED_SUCCESS"
    /\ result = PyList(<<PyInt(1), PyStr(<<"Titanic">>), PyFloat(48, 2)>>)
    /\ Len(result.v) = 3

\* final contents that are not JSON, or JSON that is no array
NonArrayContents ==
    { PyStr(<<"{", "\"", "a", "\"", ":", " ", "1", "}">>),
      PyStr(<<"1">>),
      PyStr(<<"null">>),
      PyStr(<<"Done.">>),
      PyStr(<<"[", "1", ",">>),
      PyStr(<<"[", "1", "]", " ", "Done.">>),
      PyStr(<<>>),
      PyNone }

\* C8: a reply without tool calls whose text is not JSON (empty and null
\* content included) or is JSON but no array ends the run with ValueError
\* and no returned value.
C8_NonArrayRejected ==
    \A c \in NonArrayContents :
        (IsFinalReply(msg) /\ msg.content = c) =>
            /\ pc = "TERMINATED_FAILURE"
            /\ error = [cls |-> "ValueError", origin |-> "final"]
            /\ result = NoValue

\* the run failed on the final content {"a": 1}
C8_Witness ==
    /\ pc = "TERMINATED_FAILURE"
    /\ error.cls = "ValueError"
    /\ IsFinalReply(msg)
    /\ msg.content = PyStr(<<"{", "\"", "a", "\"", ":", " ", "1", "}">>)

\* C9: a chat turn calls _chat once and posts at most once; when the call
\* fails (no token, transport error, non-2xx status) the run ends there: the
\* failing step appends no message and dispatches no tool, and afterwards
\* there is no chat request, no dispatch and no message.
C9_UpstreamErrorAborts ==
    /\ [](posts <= chat_calls /\ chat_calls <= turns + 1)
    /\ [][chat_calls' # chat_calls =>
            (chat_calls' = chat_calls + 1 /\ posts' \in {posts, posts + 1})]_vars
    /\ [][(error.origin = "none" /\ error'.origin = "upstream") =>
            (pc' = "TERMINATED_FAILURE" /\ UNCHANGED <<messages, invoked>>)]_vars
    /\ [][error.origin = "upstream" =>
            UNCHANGED <<chat_calls, posts, invoked, messages, pc>>]_vars

\* a non-2xx reply ended a run that had already dispatched a turn
C9_Witness ==
    /\ pc = "TERMINATED_FAILURE"
    /\ error = [cls |-> "HTTPStatusError", origin |-> "upstream"]
    /\ turns >= 1
    /\ chat_calls = turns + 1

\* C10 as claimed: a malformed final answer is reported as a ValueError,
\* and neither a time-budget failure nor an upstream failure is ever
\* reported with that error kind.
C10_FailuresDistinguishable ==
    pc = "TERMINATED_FAILURE" =>
        /\ error.origin = "final" => IsInstance(error, "ValueError")
        /\ error.origin \in {"budget", "upstream"} => ~IsInstance(error, "ValueError")


\* the names and parameters of the registry's entries, in order
RegistryShape(reg) ==
    [i \in DOMAIN reg |->
       [name |-> reg[i].function.name,
        properties |-> {reg[i].function.parameters.properties[k] :
                          k \in DOMAIN reg[i].function.parameters.properties}]]

\* C18: the tool registry is constant: in every state, and in the body of
\* every chat request, it is the same list of exactly three tools,
\* scrape_website{url, output_file}, get_relevant_data{file_name,
\* js_selector} and answer_questions{code}, each strict with
\* additionalProperties false.
C18_RegistryConstant ==
    LET Three(reg) ==
          /\ RegistryShape(reg) =
                << [name |-> <<"scrape_website">>,
                    properties |-> {<<"url">>, <<"output_file">>}],
                   [name |-> <<"get_relevant_data">>,
                    properties |-> {<<"file_name">>, <<"js_selector">>}],
                   [name |-> <<"answer_questions">>, properties |-> {<<"code">>}] >>
          /\ \A i \in DOMAIN reg :
               /\ reg[i].function.strict = TRUE
               /\ reg[i].function.parameters.additionalProperties = FALSE
    IN  /\ Three(tools)
        /\ tools = ToolRegistry
        /\ request # NoRequest => Three(request.tools) /\ request.tools = tools

\* the request of a later turn, after two tools ran, carried the registry
C18_Witness ==
    /\ posts >= 2
    /\ Len(invoked) = 2
    /\ Len(request.messages) >= 5
    /\ Len(request.tools) = 3

\* a step in which _chat handed a reply to the loop
ReplyReceived == chat_calls' = chat_calls + 1 /\ error'.origin # "upstream"

\* C19 as claimed: every assistant message the chat API returns is appended
\* to the conversation as it was received, tool-call reply or terminal reply.
C19_StoredAsReceived == [][ReplyReceived => messages' = Append(messages, msg')]_vars

\* C19: for a reply with tool calls the loop appends a new assistant
\* message made of the role, a null content and the received tool_calls
\* list, whatever else the reply carried; a reply without tool calls is
\* not appended at all.
C19_ToolCallsStoredContentDropped ==
    [][ReplyReceived =>
         IF ToolCallsOf(msg') # <<>>
         THEN messages' = Append(messages, [role |-> "assistant", content |-> PyNone,
                                            tool_calls |-> msg'.tool_calls])
         ELSE messages' = messages]_vars

\* a reply of two calls that also carried text was stored without its text
C19_Witness ==
    /\ Len(ToolCallsOf(msg)) = 2
    /\ msg.content = PyStr(<<"Let me look.">>)
    /\ messages[3].role = "assistant"
    /\ messages[3].tool_calls = msg.tool_calls
    /\ messages[3].content = PyNone
    /\ messages[3] # msg

\* C12 as claimed: each suspension point of the loop (chat request,
\* page-fetch navigation, subprocess wait) has its own bounded timeout, so
\* each wait returns or fails and the loop is never left inside one that
\* nothing ends: the run is always at a chat turn, dispatching the turn's
\* calls, or finished.
C12_EveryWaitEnds ==
    pc \in {"AWAITING_MODEL", "DISPATCHING_TOOLS", "TERMINATED_SUCCESS",
            "TERMINATED_FAILURE"}

\* C23: the budget is examined only at the top of an iteration, right
\* before the chat request: no chat request is issued when the elapsed time
\* already exceeds the budget; the timeout error is raised only at a chat
\* turn, with every requested call of the conversation answered; and a run
\* that ends with a turn's results incomplete has failed in a tool, not on
\* the budget.
C23_BudgetOnlyAtLoopTop ==
    /\ [][/\ chat_calls' # chat_calls => now <= LoopBudget
          /\ (error'.origin = "budget" /\ error.origin # "budget") =>
                /\ pc = "AWAITING_MODEL"
                /\ now > LoopBudget
                /\ WellPaired(messages)
                /\ messages' = messages]_vars
    /\ [](pc = "TERMINATED_FAILURE" /\ ~WellPaired(messages) => error.origin = "tool")

\* a tool call dispatched after the budget had run out still ran for 55 s,
\* its result was appended, and only then did the loop time out
C23_Witness ==
    /\ pc = "TERMINATED_FAILURE"
    /\ error.origin = "budget"
    /\ now = 220
    /\ turns = 2
    /\ messages[Len(messages)].role = "tool"
    /\ WellPaired(messages)

(***************************************************************************)
(* The loop against a model that asks for a tool call on every turn        *)
(***************************************************************************)
InitTurns == Init /\ token

\* every chat request returns, after some time, a reply with one tool call
ChatTurn ==
    /\ pc = "AWAITING_MODEL"
    /\ ChatReplyWithCalls(Durations \ {0}, 1)

\* every tool invocation returns or raises
NextTurns ==
    \/ LoopTimeout
    \/ ChatTurn
    \/ DispatchScrape
    \/ DispatchGetRelevantData
    \/ DispatchAnswerQuestions
    \/ DispatchUnknown

\* the loop is sequential code: its next statement is always executed
SpecTurns == InitTurns /\ [][NextTurns]_vars /\ WF_vars(NextTurns)

\* C20: the number of model turns is bounded only by elapsed time: against
\* a model that asks for tool calls on every turn, with every chat request
\* and tool invocation returning and time advancing, the run ends only by
\* a tool raising or by the budget check finding the budget exceeded, never
\* for the number of turns taken, and it does eventually end.
C20_TurnsBoundedByTimeOnly ==
    /\ [](Terminated =>
            \/ error.origin = "tool"
            \/ error.origin = "budget" /\ now > LoopBudget)
    /\ <>Terminated

\* three turns were taken within the budget before the timeout ended the run
C20_Witness ==
    /\ turns = 3
    /\ Len(messages) = 8
    /\ pc = "TERMINATED_FAILURE"
    /\ error = [cls |-> "TimeoutError", origin |-> "budget"]

(***************************************************************************)
(* _handle_question_upload: the run under the caller's deadline            *)
(***************************************************************************)
\* asyncio.wait_for(run_agent_for_api(text, plan), timeout=...), in seconds
OuterTimeout == 170

\* scrape_website, whose awaits give control back to the event loop, starts
\* and ends before the deadline
ApiDispatchScrape ==
    /\ now < OuterTimeout
    /\ DispatchScrape
    /\ now' <= OuterTimeout

\* the deadline expires while scrape_website is suspended in an await, or
\* had expired before its first await: wait_for cancels the run there;
\* CancelledError passes through `finally: await browser.close()` and out of
\* run_agent_for_api.  The file is written only if the cancellation arrives
\* after write_text, in browser.close().
ApiCancelScrape ==
    /\ pc = "DISPATCHING_TOOLS"
    /\ CurrentCall.function.name = <<"scrape_website">>
    /\ LET args == ParsedArguments[Get(CurrentCall.function, "arguments")]
       IN  /\ ~BindFails(args, {<<"url">>}, {<<"output_file">>})
           /\ \/ now >= OuterTimeout
              \/ \E d \in Durations : now + d > OuterTimeout
           /\ \E o \in scrape_website(args, files) : files' \in {files, o.files}
    /\ now' = IF now >= OuterTimeout THEN now ELSE OuterTimeout
    /\ Raise("CancelledError", "cancel")
    /\ invoked' = Append(invoked, CurrentCall.function.name)
    /\ UNCHANGED <<messages, msg, tool_calls, tc_i, token, browsers, chat_calls,
                   posts, turns, tools, request, runs, applied>>

\* the loop under wait_for: _chat (a synchronous httpx call) and
\* answer_questions (a synchronous subprocess.run) never give control back
\* to the event loop, so the deadline cannot interrupt them
NextApi ==
    \/ LoopTimeout
    \/ ChatMissingToken
    \/ ChatRequestFails
    \/ ChatShapeless
    \/ ChatFinal
    \/ ChatToolCalls
    \/ ApiDispatchScrape
    \/ ApiCancelScrape
    \/ DispatchGetRelevantData
    \/ DispatchAnswerQuestions
    \/ DispatchAnswerQuestionsHangs
    \/ DispatchUnknown

SpecApi == Init /\ [][NextApi]_vars

\* the HTTP status the caller can get for a finished run: 504 from `except
\* asyncio.TimeoutError`, 500 from `except Exception`.  wait_for turns the
\* cancellation into TimeoutError; the loop's own TimeoutError is an
\* asyncio.TimeoutError only where the two classes are the same (Python 3.11
\* and later)
ApiStatuses ==
    IF pc = "TERMINATED_SUCCESS" THEN {200}
    ELSE IF error.cls = "CancelledError" THEN {504}
    ELSE IF IsInstance(error, "TimeoutError") THEN {504, 500}
    ELSE {500}

\* C11 as claimed: when the caller's deadline expires while a run is in
\* progress, the run is abandoned at that point, whichever wait it is in
\* (chat request, page fetch, subprocess wait), the caller observes a
\* timeout, and no browser is left running: no run goes on past the
\* deadline.
C11_AbandonedAtDeadline ==
    now >= OuterTimeout =>
        /\ now = OuterTimeout
        /\ pc = "TERMINATED_FAILURE"
        /\ ApiStatuses = {504}
        /\ browsers = 0

\* no run of the loop is in progress
NoLoop ==
    /\ pc = "IDLE"
    /\ messages = <<>>
    /\ msg = NoMsg
    /\ tool_calls = <<>>
    /\ tc_i = 1
    /\ now = 0
    /\ result = NoValue
    /\ error = NoError
    /\ token = TRUE
    /\ browsers = 0
    /\ chat_calls = 0
    /\ posts = 0
    /\ invoked = <<>>
    /\ turns = 0
    /\ tools = ToolRegistry
    /\ request = NoRequest

loop_vars == <<pc, messages, msg, tool_calls, tc_i, now, result, error, token,
               browsers, chat_calls, posts, invoked, turns, tools, request>>

(***************************************************************************)
(* Two runs of run_agent_for_api on one event loop                         *)
(***************************************************************************)
RunIds == {1, 2}

SampleCodes == {<<"print(1)">>, <<"print(2)">>}

\* The model of each run asks for scrape_website(url), then
\* get_relevant_data on the scraped file, then answer_questions(code), one
\* call per turn, with the output file the schema of scrape_website suggests.
\* A run is at: "scrape" (about to call scrape_website), "navigating"
\* (suspended in the awaits of launch, goto and content), "closing" (file
\* written, suspended in browser.close()), "extract" and "execute" (about
\* to call the next tool), "written" (script written, about to run it),
\* "done", "failed".
InitTwoRuns ==
    /\ NoLoop
    /\ files = [p \in Paths |-> Absent]
    /\ applied = NotApplied
    /\ \E urls \in [RunIds -> {SampleUrl, SampleUrlB}], codes \in [RunIds -> SampleCodes] :
         runs = [r \in RunIds |->
                   [at |-> "scrape", url |-> urls[r], code |-> codes[r],
                    wrote |-> NoValue, read |-> NoValue, ran |-> NoValue]]

\* an event loop that can switch runs at any statement
HoldsLoop_yields(q) == FALSE

\* run q is between two awaits: the event loop is inside its code, and
\* _chat, get_relevant_data and answer_questions (from write_text through
\* subprocess.run) never give control back
HoldsLoop(q) == runs[q].at \in {"extract", "execute", "written"}

\* the event loop can step run r
CanStep(r) == \A q \in RunIds \ {r} : ~HoldsLoop(q)

ScrapeArguments(r) == PyDict(<< <<<<"url">>, PyStr(runs[r].url)>> >>)

\* scrape_website up to its first await
StartScrape(r) ==
    /\ CanStep(r)
    /\ runs[r].at = "scrape"
    /\ runs' = [runs EXCEPT ![r].at = "navigating"]
    /\ UNCHANGED <<loop_vars, files, applied>>

\* goto and content return and the page is written, or one of them raises
FinishNavigation(r) ==
    /\ CanStep(r)
    /\ runs[r].at = "navigating"
    /\ \E o \in scrape_website(ScrapeArguments(r), files) :
         /\ files' = o.files
         /\ runs' = IF o.raised THEN [runs EXCEPT ![r].at = "failed"]
                    ELSE [runs EXCEPT ![r].at = "closing",
                                      ![r].wrote = o.files[SCRAPED_HTML_DEFAULT]]
    /\ UNCHANGED <<loop_vars, applied>>

\* browser.close() returns and scrape_website with it
FinishScrape(r) ==
    /\ CanStep(r)
    /\ runs[r].at = "closing"
    /\ runs' = [runs EXCEPT ![r].at = "extract"]
    /\ UNCHANGED <<loop_vars, files, applied>>

\* the run's next turn: get_relevant_data on the scraped file
Extract(r) ==
    /\ CanStep(r)
    /\ runs[r].at = "extract"
    /\ \E o \in get_relevant_data(
                 PyDict(<< <<<<"file_name">>, PyStr(SCRAPED_HTML_DEFAULT)>>,
                           <<<<"js_selector">>, PyStr(<<"h1">>)>> >>), files) :
         /\ files' = o.files
         /\ runs' = IF o.raised THEN [runs EXCEPT ![r].at = "failed"]
                    ELSE [runs EXCEPT ![r].at = "execute",
                                      ![r].read = files[SCRAPED_HTML_DEFAULT]]
    /\ UNCHANGED <<loop_vars, applied>>

\* the run's next turn: answer_questions writes the script
WriteScript(r) ==
    /\ CanStep(r)
    /\ runs[r].at = "execute"
    /\ \E o \in answer_questions(PyDict(<< <<<<"code">>, PyStr(runs[r].code)>> >>), files) :
         files' = o.files
    /\ runs' = [runs EXCEPT ![r].at = "written"]
    /\ UNCHANGED <<loop_vars, applied>>

\* subprocess.run starts the interpreter on the file it finds at
\* TEMP_SCRIPT_PATH and waits for it
RunScript(r) ==
    /\ CanStep(r)
    /\ runs[r].at = "written"
    /\ runs' = [runs EXCEPT ![r].at = "done", ![r].ran = files[TEMP_SCRIPT_PATH]]
    /\ UNCHANGED <<loop_vars, files, applied>>

NextTwoRuns ==
    \E r \in RunIds :
        \/ StartScrape(r)
        \/ FinishNavigation(r)
        \/ FinishScrape(r)
        \/ Extract(r)
        \/ WriteScript(r)
        \/ RunScript(r)

SpecTwoRuns == InitTwoRuns /\ [][NextTwoRuns]_vars

\* C13 as claimed: two interleaved runs share no mutable state: the HTML a
\* run's get_relevant_data reads is the HTML that run's own scrape_website
\* wrote, and the script a run executes is the code that run supplied.
C13_RunsIsolated ==
    runs # NoRuns =>
        \A r \in RunIds :
            /\ runs[r].read # NoValue => runs[r].read = runs[r].wrote
            /\ runs[r].ran # NoValue =>
                  runs[r].ran = [t |-> "py", v |-> runs[r].code]

\* C24: within one event loop answer_questions writes the scratch script
\* and runs it with no suspension point in between: no other run takes a
\* step while a run's script is written and not yet started, and the
\* program each run executes is the code that run passed in, although all
\* runs share TEMP_SCRIPT_PATH.
C24_OwnScriptExecuted ==
    runs # NoRuns =>
        \A r \in RunIds :
            /\ runs[r].at = "written" =>
                  files[TEMP_SCRIPT_PATH] = [t |-> "py", v |-> runs[r].code]
            /\ runs[r].ran # NoValue =>
                  runs[r].ran = [t |-> "py", v |-> runs[r].code]

\* two runs with different code both executed their own script, the second
\* while the first was still inside scrape_website
C24_Witness ==
    /\ runs # NoRuns
    /\ runs[1].code # runs[2].code
    /\ runs[1].at = "closing"
    /\ runs[2].at = "done"
    /\ runs[2].ran = [t |-> "py", v |-> runs[2].code]
    /\ files[TEMP_SCRIPT_PATH] = [t |-> "py", v |-> runs[2].code]

(***************************************************************************)
(* Functions applied on their own                                          *)
(***************************************************************************)
\* exit statuses, standard outputs and standard errors of a finished script
ReturnCodes == {0, 1, 2, -9}

Stdouts == { <<>>, <<"\n">>, <<" ", "\n">>, <<"[1]", "\n">>, <<"partial">> }

Stderrs == { <<>>, <<"warn">>,
             <<"Traceback", "\n", "  File ", "\"", "temp_script.py", "\"", "\n">> }

CompletedProcesses ==
    [returncode : ReturnCodes, stdout : Stdouts, stderr : Stderrs]

\* answer_questions is at `if proc.returncode != 0 ...` with proc in hand
InitExecution ==
    /\ NoLoop
    /\ files = [p \in Paths |-> Absent]
    /\ runs = NoRuns
    /\ \E proc \in CompletedProcesses :
         applied = [fn |-> "answer_questions", proc |-> proc, done |-> FALSE]

\* answer_questions returns
ReturnExecutionOutcome ==
    /\ applied.fn = "answer_questions"
    /\ ~applied.done
    /\ applied' = [fn |-> "answer_questions", proc |-> applied.proc, done |-> TRUE,
                   out |-> ExecutionOutcome(applied.proc)]
    /\ UNCHANGED <<loop_vars, files, runs>>

SpecExecution == InitExecution /\ [][ReturnExecutionOutcome]_vars

\* answer_questions has returned for a finished subprocess
Executed == applied.fn = "answer_questions" /\ applied.done

\* C14: answer_questions: whenever the subprocess exits nonzero and writes
\* nothing to standard output, the returned string parses as a JSON object
\* whose "error" is "code_failed" and whose "stderr" is the captured
\* standard-error text.
C14_FailureReported ==
    (Executed /\ applied.proc.returncode # 0 /\ applied.proc.stdout = <<>>) =>
        LET parsed == Loads(applied.out)
        IN  /\ parsed.ok
            /\ IsDict(parsed.val)
            /\ DictKeys(parsed.val.v) = {<<"error">>, <<"stderr">>}
            /\ DictGet(parsed.val.v, <<"error">>) = PyStr(<<"code_failed">>)
            /\ DictGet(parsed.val.v, <<"stderr">>) = PyStr(applied.proc.stderr)

\* a script killed by a signal, silent on standard output, whose traceback
\* holds quotes and line ends
C14_Witness ==
    /\ Executed
    /\ applied.proc.returncode = -9
    /\ applied.proc.stdout = <<>>
    /\ "\"" \in {applied.proc.stderr[i] : i \in DOMAIN applied.proc.stderr}
    /\ "\"" \in {applied.out[i] : i \in DOMAIN applied.out}

\* C15 as claimed: any standard output at all, whitespace-only included, is
\* returned unchanged whatever the exit status.
C15_AnyOutputReturned ==
    (Executed /\ applied.proc.stdout # <<>>) => applied.out = applied.proc.stdout

\* C15: standard output holding anything but whitespace is returned
\* unchanged whatever the exit status, and so is any standard output of a
\* script that exits with status zero; the error object is substituted
\* exactly when the exit status is nonzero and standard output is empty or
\* whitespace-only.
C15_NonBlankOutputReturned ==
    Executed =>
        LET proc == applied.proc
            blank == Strip(proc.stdout) = <<>>
        IN  /\ (~blank \/ proc.returncode = 0) => applied.out = proc.stdout
            /\ (blank /\ proc.returncode # 0) =>
                  /\ applied.out # proc.stdout
                  /\ Loads(applied.out).ok
                  /\ IsDict(Loads(applied.out).val)

\* a failing script's partial output came back as it was, and another
\* failing script's whitespace-only output was replaced by the error object
C15_Witness ==
    /\ Executed
    /\ applied.proc.returncode = 1
    /\ \/ applied.proc.stdout = <<"partial">> /\ applied.out = <<"partial">>
       \/ /\ applied.proc.stdout = <<" ", "\n">>
          /\ applied.proc.stderr = <<"warn">>
          /\ applied.out # applied.proc.stdout


\* what a file can hold when get_relevant_data is called
FileContents ==
    {Absent, Web(SampleUrl), Web(SampleUrlB), [t |-> "py", v |-> <<"print(1)">>]}

\* the js_selector argument: a selector, the empty string, None
SelectorArguments ==
    {PyStr(sel) : sel \in ValidSelectors \cup InvalidSelectors} \cup {PyStr(<<>>), PyNone}

\* the keyword arguments of a call of get_relevant_data
ExtractArguments ==
    { PyDict(<< <<<<"file_name">>, PyStr(p)>> >>) : p \in Paths }
      \cup { PyDict(<< <<<<"file_name">>, PyStr(p)>>, <<<<"js_selector">>, sel>> >>) :
                p \in Paths, sel \in SelectorArguments }

\* get_relevant_data is called
InitExtract ==
    /\ NoLoop
    /\ files \in [Paths -> FileContents]
    /\ runs = NoRuns
    /\ \E args \in ExtractArguments :
         applied = [fn |-> "get_relevant_data", args |-> args, done |-> FALSE]

\* get_relevant_data returns or raises
ReturnExtract ==
    /\ applied.fn = "get_relevant_data"
    /\ ~applied.done
    /\ \E o \in get_relevant_data(applied.args, files) :
         /\ applied' = [fn |-> "get_relevant_data", args |-> applied.args,
                        done |-> TRUE, outcome |-> o]
         /\ files' = o.files
    /\ UNCHANGED <<loop_vars, runs>>

SpecExtract == InitExtract /\ [][ReturnExtract]_vars

\* get_relevant_data has ended on an existing file with a non-empty selector
ExtractedWith(selectors) ==
    /\ applied.fn = "get_relevant_data"
    /\ applied.done
    /\ Exists(files, DictGet(applied.args.v, <<"file_name">>).v)
    /\ <<"js_selector">> \in DictKeys(applied.args.v)
    /\ IsStr(DictGet(applied.args.v, <<"js_selector">>))
    /\ DictGet(applied.args.v, <<"js_selector">>).v \in selectors

\* the returned text is a selector result with no data
EmptyResult(out) ==
    LET parsed == Loads(out)
    IN  /\ parsed.ok
        /\ IsDict(parsed.val)
        /\ DictGet(parsed.val.v, <<"count">>) = PyInt(0)
        /\ DictGet(parsed.val.v, <<"data">>) = PyList(<<>>)

\* C16 as claimed: get_relevant_data on an existing file with a
\* syntactically invalid selector does not raise and returns an empty
\* result set with count zero.
C16_InvalidSelectorIsNoData ==
    ExtractedWith(InvalidSelectors) =>
        ~applied.outcome.raised /\ EmptyResult(applied.outcome.out)

\* C17: get_relevant_data with a valid non-empty selector never raises on
\* an existing file; its result's count equals the number of strings in
\* its data, and a selector that matches no element gives count 0 and an
\* empty data sequence.
C17_NoMatchIsEmpty ==
    ExtractedWith(ValidSelectors) =>
        LET o == applied.outcome
            parsed == Loads(o.out)
            selector == DictGet(applied.args.v, <<"js_selector">>).v
            doc == Soup(files[DictGet(applied.args.v, <<"file_name">>).v])
        IN  /\ ~o.raised
            /\ parsed.ok
            /\ IsDict(parsed.val)
            /\ IsList(DictGet(parsed.val.v, <<"data">>))
            /\ DictGet(parsed.val.v, <<"count">>)
                  = PyInt(Len(DictGet(parsed.val.v, <<"data">>).v))
            /\ (\A i \in DOMAIN doc : doc[i].tag # selector) => EmptyResult(o.out)

\* "table" was selected from a page that has elements but no table
C17_Witness ==
    /\ ExtractedWith({<<"table">>})
    /\ files[DictGet(applied.args.v, <<"file_name">>).v] = Web(SampleUrl)
    /\ EmptyResult(applied.outcome.out)


(***************************************************************************)
(* scrape_website, await by await                                          *)
(***************************************************************************)
\* everything but the browser count, the file system and the applied call
scrape_frame == <<pc, messages, msg, tool_calls, tc_i, now, result, error, token,
                  chat_calls, posts, invoked, turns, tools, request, runs>>

\* the keyword arguments of a call of scrape_website
ScrapeCalls ==
    { PyDict(<< <<<<"url">>, PyStr(u)>> >>) : u \in {SampleUrl, SampleUrlB} }
      \cup { PyDict(<< <<<<"url">>, PyStr(u)>>, <<<<"output_file">>, PyStr(p)>> >>) :
                u \in {SampleUrl, SampleUrlB}, p \in Paths }

\* scrape_website is called; `at` is the statement it is about to execute,
\* `exc` the exception in flight, `broke` the statement that raised it
InitScrape ==
    /\ NoLoop
    /\ \E old \in {Absent, Web(SampleUrl)} :
         files = [p \in Paths |-> IF p = SCRAPED_HTML_DEFAULT THEN old ELSE Absent]
    /\ runs = NoRuns
    /\ \E args \in ScrapeCalls :
         applied = [fn |-> "scrape_website", args |-> args, at |-> "launch",
                    exc |-> "none", broke |-> "none", content |-> NoValue]

\* the function is at statement `at` with no exception in flight
ScrapeAt(at) ==
    /\ applied.fn = "scrape_website"
    /\ applied.at = at
    /\ applied.exc = "none"

\* statement `at` raises cls and control goes to `handler`
Breaks(at, cls, handler) ==
    applied' = [applied EXCEPT !.at = handler, !.exc = cls, !.broke = at]

\* what an await can raise: the call's own error, or the cancellation of
\* the task suspended in it
AwaitErrors(cls) == {cls, "CancelledError"}

\* browsers still open once the playwright driver has left
DriverStopped_detached(open) == open

\* browsers still open once `async with async_playwright()` has been left:
\* the driver is stopped and takes the browsers it launched with it
DriverStopped(open) == 0

\* browser = await p.chromium.launch(...)
Launch ==
    /\ ScrapeAt("launch")
    /\ \/ /\ applied' = [applied EXCEPT !.at = "new_page"]
          /\ browsers' = browsers + 1
       \/ /\ \E cls \in AwaitErrors("PlaywrightError") : Breaks("launch", cls, "exit")
          /\ UNCHANGED browsers
    /\ UNCHANGED <<scrape_frame, files>>

\* page = await browser.new_page(), before the try
NewPage ==
    /\ ScrapeAt("new_page")
    /\ \/ applied' = [applied EXCEPT !.at = "goto"]
       \/ \E cls \in AwaitErrors("PlaywrightError") : Breaks("new_page", cls, "exit")
    /\ UNCHANGED <<scrape_frame, files, browsers>>

\* await page.goto(url, ..., timeout=60_000)
Goto ==
    /\ ScrapeAt("goto")
    /\ \/ applied' = [applied EXCEPT !.at = "content"]
       \/ \E cls \in AwaitErrors("PlaywrightTimeoutError") : Breaks("goto", cls, "close")
    /\ UNCHANGED <<scrape_frame, files, browsers>>

\* content = await page.content()
Content ==
    /\ ScrapeAt("content")
    /\ \/ applied' = [applied EXCEPT
                        !.at = "write",
                        !.content = Web(DictGet(applied.args.v, <<"url">>).v)]
       \/ \E cls \in AwaitErrors("PlaywrightError") : Breaks("content", cls, "close")
    /\ UNCHANGED <<scrape_frame, files, browsers>>

\* mkdir and out_path.write_text(content): synchronous, so never cancelled
WriteFile ==
    /\ ScrapeAt("write")
    /\ LET output_file == IF <<"output_file">> \in DictKeys(applied.args.v)
                          THEN DictGet(applied.args.v, <<"output_file">>).v
                          ELSE SCRAPED_HTML_DEFAULT
       IN  \/ /\ files' = WriteText(files, output_file, applied.content)
              /\ applied' = [applied EXCEPT !.at = "close"]
           \/ /\ Breaks("write", "OSError", "close")
              /\ UNCHANGED files
    /\ UNCHANGED <<scrape_frame, browsers>>

\* finally: await browser.close(), on the way out of the try whatever
\* happened in it; the close itself can be cancelled when nothing else was
CloseBrowser ==
    /\ applied.fn = "scrape_website"
    /\ applied.at = "close"
    /\ \/ /\ browsers' = browsers - 1
          /\ applied' = [applied EXCEPT !.at = "exit"]
       \/ /\ applied.exc = "none"
          /\ Breaks("close", "CancelledError", "exit")
          /\ UNCHANGED browsers
    /\ UNCHANGED <<scrape_frame, files>>

\* leaving `async with async_playwright() as p`, then return or re-raise
ExitPlaywright ==
    /\ applied.fn = "scrape_website"
    /\ applied.at = "exit"
    /\ browsers' = DriverStopped(browsers)
    /\ applied' = [applied EXCEPT
                     !.at = IF applied.exc = "none" THEN "returned" ELSE "raised"]
    /\ UNCHANGED <<scrape_frame, files>>

NextScrape ==
    \/ Launch
    \/ NewPage
    \/ Goto
    \/ Content
    \/ WriteFile
    \/ CloseBrowser
    \/ ExitPlaywright

SpecScrape == InitScrape /\ [][NextScrape]_vars

\* scrape_website has exited
Scraped == applied.fn = "scrape_website" /\ applied.at \in {"returned", "raised"}

Candidates ==
    << <<"main#content">>, <<"main">>, <<"article">>, <<"#content">>,
       <<"#mw-content-text">>,
       <<"table.wikitable">>, <<"table.infobox">>,
       <<"div.mw-parser-output h2">>, <<"div.mw-parser-output h3">> >>

\* elements a saved page can hold: tag, id, class, and the class of the div
\* the element is inside of
PageElements ==
    { [tag |-> "main", id |-> "content", class |-> "", within |-> ""],
      [tag |-> "article", id |-> "", class |-> "", within |-> ""],
      [tag |-> "div", id |-> "mw-content-text", class |-> "mw-parser-output",
       within |-> ""],
      [tag |-> "table", id |-> "", class |-> "wikitable", within |-> "mw-parser-output"],
      [tag |-> "h2", id |-> "", class |-> "", within |-> "mw-parser-output"] }

\* the element matches the candidate selector
MatchesCandidate(el, sel) ==
    CASE sel = <<"main#content">> -> el.tag = "main" /\ el.id = "content"
      [] sel = <<"main">> -> el.tag = "main"
      [] sel = <<"article">> -> el.tag = "article"
      [] sel = <<"#content">> -> el.id = "content"
      [] sel = <<"#mw-content-text">> -> el.id = "mw-content-text"
      [] sel = <<"table.wikitable">> -> el.tag = "table" /\ el.class = "wikitable"
      [] sel = <<"table.infobox">> -> el.tag = "table" /\ el.class = "infobox"
      [] sel = <<"div.mw-parser-output h2">> ->
           el.tag = "h2" /\ el.within = "mw-parser-output"
      [] sel = <<"div.mw-parser-output h3">> ->
           el.tag = "h3" /\ el.within = "mw-parser-output"
      [] OTHER -> FALSE

\* soup.select_one(sel) is not None
SelectOne(soup, sel) == \E el \in soup : MatchesCandidate(el, sel)

\* the two `for sel in [...]` loops: the matching candidates, in order
Suggestions(soup) ==
    LET Matching(sel) == SelectOne(soup, sel) IN SelectSeq(Candidates, Matching)

\* the `for s in suggestions` loop from `rest` on, `out` being the list so
\* far: append s unless present, then stop once the list is long enough
RECURSIVE DedupTrim(_, _, _)
DedupTrim(rest, out, max_suggestions) ==
    IF rest = <<>> THEN out
    ELSE LET s == Head(rest)
             grown == IF \E i \in DOMAIN out : out[i] = s THEN out ELSE Append(out, s)
         IN  IF Len(grown) >= max_suggestions THEN grown
             ELSE DedupTrim(Tail(rest), grown, max_suggestions)

suggest_selectors(soup, max_suggestions) ==
    DedupTrim(Suggestions(soup), <<>>, max_suggestions)

\* values of max_suggestions a caller passes
SuggestionCaps == {0, 1, 2, 3, 10}

\* suggest_selectors is called on a page that was read and parsed
InitSuggest ==
    /\ NoLoop
    /\ files = [p \in Paths |-> Absent]
    /\ runs = NoRuns
    /\ \E soup \in SUBSET PageElements, max_suggestions \in SuggestionCaps :
         applied = [fn |-> "suggest_selectors", soup |-> soup,
                    max_suggestions |-> max_suggestions, done |-> FALSE]

\* suggest_selectors returns
ReturnSuggest ==
    /\ applied.fn = "suggest_selectors"
    /\ ~applied.done
    /\ applied' = [applied EXCEPT
                     !.done = TRUE] @@
                   [out |-> suggest_selectors(applied.soup, applied.max_suggestions)]
    /\ UNCHANGED <<loop_vars, files, runs>>

SpecSuggest == InitSuggest /\ [][ReturnSuggest]_vars

\* the position of a candidate in the candidate order
CandidateIndex(sel) == CHOOSE i \in DOMAIN Candidates : Candidates[i] = sel

\* C22 as claimed: suggest_selectors returns a list without duplicates, in
\* candidate order, holding only candidates that match the document, and
\* never longer than max_suggestions, for every max_suggestions, 0 included.
C22_DedupedAndCapped ==
    (applied.fn = "suggest_selectors" /\ applied.done) =>
        LET out == applied.out
        IN  /\ \A i, j \in DOMAIN out : i # j => out[i] # out[j]
            /\ \A i \in DOMAIN out :
                 /\ \E k \in DOMAIN Candidates : Candidates[k] = out[i]
                 /\ SelectOne(applied.soup, out[i])
            /\ \A i, j \in DOMAIN out :
                 i < j => CandidateIndex(out[i]) < CandidateIndex(out[j])
            /\ Len(out) <= applied.max_suggestions

====
